---- MODULE Spec2Model ----
(***************************************************************************)
(* IPL captaincy analytics (src/captain.py): the scoring pass              *)
(* calculate_captain_score, the summary view display_metrics and the part  *)
(* of main that loads a batch, scores it and shows the summary.            *)
(*                                                                         *)
(* A DataFrame is a record [dtype, rows]: dtype maps each column that is   *)
(* present to its pandas dtype, rows is the sequence of rows, each a       *)
(* function from the present columns to the cell.  float64 cells are exact *)
(* fractions [k, n, d] (k = "fin", n/d in lowest terms, d > 0) or one of   *)
(* the IEEE specials NaN, +inf, -inf; int64 cells are integers; object     *)
(* cells are strings.  Slider weights are counted in slider steps of 0.05. *)
(* A finite double is taken as the real number it approximates; where the  *)
(* result of .round(2) hangs on the double's rounding error (the real      *)
(* number lies exactly between two hundredths) both hundredths are         *)
(* outcomes.                                                               *)
(***************************************************************************)
EXTENDS Integers, Sequences, FiniteSets

VARIABLES pc, weights, df, arg, result_df, errors, metrics, uncaught

vars == <<pc, weights, df, arg, result_df, errors, metrics, uncaught>>

-----------------------------------------------------------------------------
(* Bounds of the model *)

MaxCount == 2
MaxRows == 3
MaxDefects == 1

-----------------------------------------------------------------------------
(* Program constants *)

\* A slider runs from 0.0 to 1.0 in steps of 0.05: 20 steps of 5 hundredths.
SliderMax == 20
SliderStep == 5
ClipLower == 0
ClipUpper == 100

\* .round(2) keeps hundredths.
ScoreScale == 100

\* The four sliders of main, in slider steps: value = steps * 0.05.
DefaultWeights == [win |-> 8, close |-> 4, player |-> 4, strategy |-> 4]

RatioColumns ==
  { "Matches_Played", "Matches_Won", "Close_Matches_Played",
    "Close_Matches_Won", "Successful_Strategies", "Total_Strategies" }

NumericColumns == RatioColumns \cup {"Player_Improvement_Score"}

RequiredColumns == NumericColumns \cup {"Captain"}

DerivedColumns ==
  { "Win_Percentage", "Close_Match_Success", "Strategy_Success",
    "Player_Impact", "Captaincy_Score" }

-----------------------------------------------------------------------------
(* float64 arithmetic, exact on the finite values *)

Abs(x) == IF x < 0 THEN -x ELSE x

RECURSIVE GCD(_, _)
GCD(a, b) == IF b = 0 THEN a ELSE GCD(b, a % b)

NaN == [k |-> "nan", n |-> 0, d |-> 1]
PosInf == [k |-> "inf", n |-> 1, d |-> 0]
NegInf == [k |-> "-inf", n |-> -1, d |-> 0]

\* The finite value n/d (d # 0), in lowest terms with a positive denominator.
Frac(n, d) ==
  LET g == GCD(Abs(n), Abs(d))
      s == IF d < 0 THEN -1 ELSE 1
  IN [k |-> "fin", n |-> (s * n) \div g, d |-> (s * d) \div g]

Zero == Frac(0, 1)

IsFinite(x) == x.k = "fin"

\* a / b of two int64 series cells: pandas gives inf or NaN on b = 0, no error.
TrueDiv(a, b) ==
  IF b # 0 THEN Frac(a, b)
  ELSE IF a > 0 THEN PosInf
  ELSE IF a < 0 THEN NegInf
  ELSE NaN

Mul100(x) == IF IsFinite(x) THEN Frac(100 * x.n, x.d) ELSE x

\* x <= y on floats; every comparison with NaN is false.
FloatLE(x, y) ==
  CASE x.k = "nan" \/ y.k = "nan" -> FALSE
    [] x.k = "-inf" \/ y.k = "inf" -> TRUE
    [] x.k = "inf" \/ y.k = "-inf" -> FALSE
    [] OTHER -> x.n * y.d <= y.n * x.d

NpWhere(cond, x, y) == IF cond THEN x ELSE y

RatioUnguarded(num, den) == Mul100(TrueDiv(num, den))

RatioInverted(num, den) == NpWhere(den > 0, Mul100(TrueDiv(den, num)), Zero)

\* np.where(den > 0, (num / den) * 100, 0): both branches are evaluated.
Ratio(num, den) == NpWhere(den > 0, Mul100(TrueDiv(num, den)), Zero)

Min2(a, b) == IF a < b THEN a ELSE b
Max2(a, b) == IF a > b THEN a ELSE b

ClipNoLower(x, lower, upper) == Min2(x, upper)

\* Series.clip(lower, upper) on an int64 cell.
Clip(x, lower, upper) == Min2(Max2(x, lower), upper)

\* .round(2) of the double that approximates (whole + rem/den) hundredths,
\* 0 <= rem < den: the nearest hundredth; on an exact half the double lies a
\* rounding error above, below or on it, and either neighbour may come out.
RoundOutcomes(whole, rem, den) ==
  IF 2 * rem > den THEN {whole + 1}
  ELSE IF 2 * rem < den THEN {whole}
  ELSE {whole, whole + 1}

-----------------------------------------------------------------------------
(* DataFrames *)

EmptyFrame == [dtype |-> [c \in {} |-> ""], rows |-> <<>>]

Columns(frame) == DOMAIN frame.dtype

\* DataFrame.empty: no columns or no rows.
IsEmpty(frame) == Columns(frame) = {} \/ Len(frame.rows) = 0

Extend(f, key, val) ==
  [c \in (DOMAIN f) \cup {key} |-> IF c = key THEN val ELSE f[c]]

\* df[name] = vals, on the frame object itself.
SetColumn(frame, name, dt, vals) ==
  [dtype |-> Extend(frame.dtype, name, dt),
   rows |-> [i \in 1..Len(frame.rows) |-> Extend(frame.rows[i], name, vals[i])]]

NoFault == [kind |-> "none", cause |-> ""]

\* Column c holds a text cell (only a column of dtype object can).
HoldsText(frame, c) ==
  /\ frame.dtype[c] = "object"
  /\ \E i \in 1..Len(frame.rows) : frame.rows[i][c] \in STRING

\* df[c] used as a number: KeyError when the column is absent, TypeError
\* when the arithmetic meets a text cell.
ColumnFault(frame, c) ==
  IF c \notin Columns(frame) THEN [kind |-> "KeyError", cause |-> c]
  ELSE IF HoldsText(frame, c) THEN [kind |-> "TypeError", cause |-> c]
  ELSE NoFault

\* The first fault among the columns, in the order the code reads them.
RECURSIVE FirstFault(_, _)
FirstFault(frame, cols) ==
  IF cols = <<>> THEN NoFault
  ELSE IF ColumnFault(frame, Head(cols)) # NoFault
       THEN ColumnFault(frame, Head(cols))
       ELSE FirstFault(frame, Tail(cols))

-----------------------------------------------------------------------------
(* calculate_captain_score *)

\* The dtype of the result of arithmetic over the columns cols that met no
\* text cell: object as soon as one operand is (a column without a cell read
\* from a file without a row), else the dtype the numbers give.
ResultDtype(frame, cols, numeric) ==
  IF \E c \in cols : frame.dtype[c] = "object" THEN "object" ELSE numeric

\* df[new] = np.where(df[den] > 0, (df[num] / df[den]) * 100, 0)
RatioStep(st, new, num, den) ==
  IF st.fault # NoFault THEN st
  ELSE LET f == FirstFault(st.frame, <<den, num>>)
       IN IF f # NoFault THEN [frame |-> st.frame, fault |-> f]
          ELSE [frame |-> SetColumn(st.frame, new,
                            ResultDtype(st.frame, {num, den}, "float64"),
                            [i \in 1..Len(st.frame.rows) |->
                               Ratio(st.frame.rows[i][num], st.frame.rows[i][den])]),
                fault |-> NoFault]

\* df['Player_Impact'] = df['Player_Improvement_Score'].clip(0, 100)
ClipStep(st) ==
  IF st.fault # NoFault THEN st
  ELSE LET f == ColumnFault(st.frame, "Player_Improvement_Score")
       IN IF f # NoFault THEN [frame |-> st.frame, fault |-> f]
          ELSE [frame |-> SetColumn(st.frame, "Player_Impact",
                            ResultDtype(st.frame, {"Player_Improvement_Score"},
                                        "int64"),
                            [i \in 1..Len(st.frame.rows) |->
                               Clip(st.frame.rows[i]["Player_Improvement_Score"],
                                    ClipLower, ClipUpper)]),
                fault |-> NoFault]

\* One weighted term percentage * weight, in hundredths: the whole part and
\* the remainder over the percentage's denominator.
TermWhole(p, steps) == (p.n * steps * SliderStep) \div p.d
TermRem(p, steps) == (p.n * steps * SliderStep) % p.d

\* percentage * weight where the percentage is not finite: inf * 0 is NaN.
SpecialTerm(p, steps) == IF p.k = "nan" \/ steps = 0 THEN NaN ELSE p

\* The sum of float terms of which at least one is not finite: NaN if a term
\* is NaN or both infinities occur, else the infinity.
SpecialSum(terms) ==
  LET kinds == {terms[i].k : i \in DOMAIN terms}
  IN IF "nan" \in kinds \/ ("inf" \in kinds /\ "-inf" \in kinds) THEN NaN
     ELSE IF "inf" \in kinds THEN PosInf
     ELSE NegInf

\* The values the sum of the four weighted terms may round to.
WeightedSumRounded(win_pct, close_pct, impact, strat_pct, w) ==
  IF ~(IsFinite(win_pct) /\ IsFinite(close_pct) /\ IsFinite(strat_pct))
  THEN LET term(p, steps) ==
             IF IsFinite(p) THEN Zero ELSE SpecialTerm(p, steps)
       IN {SpecialSum(<<term(win_pct, w.win), term(close_pct, w.close),
                        term(strat_pct, w.strategy)>>)}
  ELSE LET pi == Frac(impact, 1)
           den == win_pct.d * close_pct.d * strat_pct.d
           whole0 == TermWhole(win_pct, w.win) + TermWhole(close_pct, w.close)
                     + TermWhole(pi, w.player) + TermWhole(strat_pct, w.strategy)
           rems == TermRem(win_pct, w.win) * (den \div win_pct.d)
                   + TermRem(close_pct, w.close) * (den \div close_pct.d)
                   + TermRem(strat_pct, w.strategy) * (den \div strat_pct.d)
           whole == whole0 + (rems \div den)
       IN {Frac(h, ScoreScale) : h \in RoundOutcomes(whole, rems % den, den)}

WeightedScoreRawPlayer(win_pct, close_pct, impact, strat_pct, w) ==
  WeightedSumRounded(win_pct, close_pct, impact, strat_pct,
                     [w EXCEPT !.player = SliderMax])

\* (Win_Percentage * win + Close_Match_Success * close + Player_Impact * player
\*  + Strategy_Success * strategy).round(2), for one row: its possible values.
WeightedScore(win_pct, close_pct, impact, strat_pct, w) ==
  WeightedSumRounded(win_pct, close_pct, impact, strat_pct, w)

\* The possible Captaincy_Score columns of the first k rows.
RECURSIVE ScoreColumns(_, _, _)
ScoreColumns(rows, w, k) ==
  IF k = 0 THEN {<<>>}
  ELSE LET r == rows[k]
       IN { Append(col, v) :
              col \in ScoreColumns(rows, w, k - 1),
              v \in WeightedScore(r["Win_Percentage"], r["Close_Match_Success"],
                                  r["Player_Impact"], r["Strategy_Success"], w) }

\* The four columns the weighted sum reads.
ScoreOperands ==
  {"Win_Percentage", "Close_Match_Success", "Player_Impact", "Strategy_Success"}

\* df['Captaincy_Score'] = (...).round(2): the states the step may leave.
\* On a sum of dtype object .round(2) keeps the column as it is or raises
\* TypeError before the assignment, depending on the pandas release.
ScoreStep(st, w) ==
  IF st.fault # NoFault THEN {st}
  ELSE LET dtype == ResultDtype(st.frame, ScoreOperands, "float64")
       IN { [frame |-> SetColumn(st.frame, "Captaincy_Score", dtype, col),
             fault |-> NoFault] :
              col \in ScoreColumns(st.frame.rows, w, Len(st.frame.rows)) }
          \cup (IF dtype = "object"
                THEN {[frame |-> st.frame,
                       fault |-> [kind |-> "TypeError", cause |-> "round"]]}
                ELSE {})

\* a sorts before-or-with b, descending with NaN last.
KeyGE(a, b) == b.k = "nan" \/ (a.k # "nan" /\ FloatLE(b, a))

\* Every order of the row numbers idxs that is non-increasing in key: the
\* default sort kind is quicksort, which does not fix the order of equal keys.
RECURSIVE DescendingOrders(_, _)
DescendingOrders(key, idxs) ==
  IF idxs = {} THEN {<<>>}
  ELSE LET tops == {i \in idxs : \A j \in idxs : KeyGE(key[i], key[j])}
       IN UNION {{<<i>> \o s : s \in DescendingOrders(key, idxs \ {i})} : i \in tops}

RECURSIVE AscendingOrders(_, _)
AscendingOrders(key, idxs) ==
  IF idxs = {} THEN {<<>>}
  ELSE LET tops == {i \in idxs : \A j \in idxs : KeyGE(key[j], key[i])}
       IN UNION {{<<i>> \o s : s \in AscendingOrders(key, idxs \ {i})} : i \in tops}

Reorder(frame, order) ==
  [dtype |-> frame.dtype,
   rows |-> [i \in 1..Len(order) |-> frame.rows[order[i]]]]

SortValuesAscending(frame, by) ==
  { Reorder(frame, o) :
      o \in AscendingOrders([i \in 1..Len(frame.rows) |-> frame.rows[i][by]],
                            1..Len(frame.rows)) }

\* df.sort_values(by=..., ascending=False): the new frames it may return.
SortValues(frame, by) ==
  { Reorder(frame, o) :
      o \in DescendingOrders([i \in 1..Len(frame.rows) |-> frame.rows[i][by]],
                             1..Len(frame.rows)) }

\* What the two except clauses report with st.error.
ErrorReport(fault) ==
  [kind |-> IF fault.kind = "KeyError" THEN "MissingField" ELSE "ProcessingError",
   cause |-> fault.cause]

ExceptReturnPartial(frame) == frame

\* return pd.DataFrame() of both except clauses.
ExceptReturn(frame) == EmptyFrame

\* The outcomes of the call: frame is the object passed in, as it is left
\* when the call ends; ret is the frame returned; fault is the exception the
\* except clauses caught, if any.
CalculateCaptainScore(frame, w) ==
  LET s0 == [frame |-> frame, fault |-> NoFault]
      s1 == RatioStep(s0, "Win_Percentage", "Matches_Won", "Matches_Played")
      s2 == RatioStep(s1, "Close_Match_Success", "Close_Matches_Won",
                      "Close_Matches_Played")
      s3 == RatioStep(s2, "Strategy_Success", "Successful_Strategies",
                      "Total_Strategies")
      s4 == ClipStep(s3)
  IN UNION { IF s5.fault = NoFault
             THEN { [frame |-> s5.frame, fault |-> NoFault, ret |-> r] :
                      r \in SortValues(s5.frame, "Captaincy_Score") }
             ELSE { [frame |-> s5.frame, fault |-> s5.fault,
                     ret |-> ExceptReturn(s5.frame)] } :
             s5 \in ScoreStep(s4, w) }

-----------------------------------------------------------------------------
(* display_metrics *)

NoMetrics == [top |-> Zero, average |-> Zero, best |-> "", total |-> 0]

\* A finite score in hundredths (scores are rounded to two decimals).
Hundredths(x) == (x.n * ScoreScale) \div x.d

\* The sum of the finite scores among the first i rows, in hundredths.
RECURSIVE SumHundredths(_, _)
SumHundredths(rows, i) ==
  IF i = 0 THEN 0
  ELSE (IF IsFinite(rows[i]["Captaincy_Score"])
        THEN Hundredths(rows[i]["Captaincy_Score"]) ELSE 0)
       + SumHundredths(rows, i - 1)

\* df['Captaincy_Score'].max(): NaN is skipped; NaN if every score is NaN.
MaxScore(rows) ==
  LET i == CHOOSE a \in 1..Len(rows) :
             \A b \in 1..Len(rows) :
               KeyGE(rows[a]["Captaincy_Score"], rows[b]["Captaincy_Score"])
  IN rows[i]["Captaincy_Score"]

\* df['Captaincy_Score'].mean() of a column with no score other than NaN (or
\* no row at all) is the plain float nan, which has no round method.
MeanHasNoRound(rows) ==
  \A i \in 1..Len(rows) : rows[i]["Captaincy_Score"].k = "nan"

\* df['Captaincy_Score'].mean().round(2): NaN scores are skipped, an infinite
\* score makes the mean infinite (NaN if both infinities occur); the values
\* the mean of the others may round to.  No value where .round raises.
MeanScore(rows) ==
  LET kinds == {rows[i]["Captaincy_Score"].k : i \in 1..Len(rows)}
      count == Cardinality({i \in 1..Len(rows) :
                              IsFinite(rows[i]["Captaincy_Score"])})
      total == SumHundredths(rows, Len(rows))
  IN IF MeanHasNoRound(rows) THEN {}
     ELSE IF "inf" \in kinds /\ "-inf" \in kinds THEN {NaN}
     ELSE IF "inf" \in kinds THEN {PosInf}
     ELSE IF "-inf" \in kinds THEN {NegInf}
     ELSE { Frac(h, ScoreScale) :
              h \in RoundOutcomes(total \div count, total % count, count) }

\* The exception that escapes display_metrics(frame), if any: the entries of
\* the metrics dict are evaluated in order.
MetricsFault(frame) ==
  IF "Captaincy_Score" \notin Columns(frame)
  THEN [kind |-> "KeyError", cause |-> "Captaincy_Score"]
  ELSE IF MeanHasNoRound(frame.rows)
  THEN [kind |-> "AttributeError", cause |-> "round"]
  ELSE IF "Captain" \notin Columns(frame)
  THEN [kind |-> "KeyError", cause |-> "Captain"]
  ELSE NoFault

\* The metrics display_metrics(frame) may show.
MetricsOf(frame) ==
  { [top |-> MaxScore(frame.rows),
     average |-> avg,
     best |-> frame.rows[1]["Captain"],
     total |-> Len(frame.rows)] : avg \in MeanScore(frame.rows) }

-----------------------------------------------------------------------------
(* Inputs of main: the sliders and the data *)

WeightsOf(a, b, c, d) == [win |-> a, close |-> b, player |-> c, strategy |-> d]

\* Slider settings: the defaults, every slider at its maximum, each slider
\* alone at its default with the others at 0, and win 0.2 with player 0.3,
\* where a weighted sum of the built-in dataset lies exactly between two
\* hundredths.
WeightConfigs ==
  { DefaultWeights,
    WeightsOf(4, 0, 6, 0),
    WeightsOf(SliderMax, SliderMax, SliderMax, SliderMax),
    WeightsOf(DefaultWeights.win, 0, 0, 0),
    WeightsOf(0, DefaultWeights.close, 0, 0),
    WeightsOf(0, 0, DefaultWeights.player, 0),
    WeightsOf(0, 0, 0, DefaultWeights.strategy) }

\* The built-in dataset of main.
DefaultCaptains ==
  << "Ruturaj Gaikwad", "Axar Patel", "Shubman Gill", "Ajinkya Rahane",
     "Rishabh Pant", "Hardik Pandya", "Shreyas Iyer", "Sanju Samson",
     "Rajat Patidar", "Pat Cummins" >>

DefaultData ==
  [ Matches_Played |-> <<150, 120, 130, 200, 110, 140, 115, 160, 90, 85>>,
    Matches_Won |-> <<90, 70, 80, 110, 65, 85, 60, 95, 50, 45>>,
    Close_Matches_Played |-> <<40, 35, 38, 50, 28, 36, 30, 42, 20, 18>>,
    Close_Matches_Won |-> <<25, 18, 22, 30, 15, 20, 14, 26, 10, 9>>,
    Player_Improvement_Score |-> <<80, 75, 82, 78, 76, 79, 74, 77, 70, 72>>,
    Successful_Strategies |-> <<100, 85, 90, 110, 80, 95, 78, 105, 60, 58>>,
    Total_Strategies |-> <<130, 110, 120, 140, 100, 125, 95, 135, 75, 70>> ]

DefaultFrame ==
  [dtype |-> [c \in RequiredColumns |-> IF c = "Captain" THEN "object" ELSE "int64"],
   rows |-> [i \in 1..Len(DefaultCaptains) |->
               [c \in RequiredColumns |->
                  IF c = "Captain" THEN DefaultCaptains[i] ELSE DefaultData[c][i]]]]

\* An uploaded CSV, as pd.read_csv parses it.  Each required column is as it
\* should be ("ok"), missing from the file ("absent") or holds text in place
\* of numbers ("text": words that are none of read_csv's markers of a missing
\* value, so that the column is parsed to dtype object).  A file with a header
\* and no row gives read_csv nothing to infer from: every column is object.
DefectMaps ==
  { m \in [RequiredColumns -> {"ok", "absent", "text"}] :
      /\ m["Captain"] # "text"
      /\ Cardinality({c \in RequiredColumns : m[c] # "ok"}) <= MaxDefects }

\* The cells of a well-formed uploaded row i whose captain won `won` of
\* MaxCount matches: the close matches are the ones lost, no strategy was
\* recorded.
UploadCell(c, i, won) ==
  CASE c = "Captain" -> DefaultCaptains[i]
    [] c = "Matches_Played" -> MaxCount
    [] c = "Matches_Won" -> won
    [] c = "Close_Matches_Played" -> MaxCount
    [] c = "Close_Matches_Won" -> MaxCount - won
    [] c = "Player_Improvement_Score" -> DefaultData.Player_Improvement_Score[i]
    [] OTHER -> 0

Upload(wons, m) ==
  LET present == {c \in RequiredColumns : m[c] # "absent"}
  IN [dtype |-> [c \in present |->
                   IF c = "Captain" \/ m[c] = "text" \/ Len(wons) = 0
                   THEN "object" ELSE "int64"],
      rows |-> [i \in 1..Len(wons) |->
                  [c \in present |->
                     IF m[c] = "text" THEN "abc" ELSE UploadCell(c, i, wons[i])]]]

-----------------------------------------------------------------------------
(* main *)

Init ==
  /\ pc = "start"
  /\ weights = DefaultWeights
  /\ df = EmptyFrame
  /\ arg = EmptyFrame
  /\ result_df = EmptyFrame
  /\ errors = <<>>
  /\ metrics = NoMetrics
  /\ uncaught = NoFault

\* The sliders are read and the data loaded: the upload, or the built-in set.
Load ==
  /\ pc = "start"
  /\ \E w \in WeightConfigs : weights' = w
  /\ \/ df' = DefaultFrame
     \/ \E n \in 0..MaxRows : \E wons \in [1..n -> 0..MaxCount] :
          \E m \in DefectMaps : df' = Upload(wons, m)
  /\ pc' = "loaded"
  /\ UNCHANGED <<arg, result_df, errors, metrics, uncaught>>

\* result_df = calculate_captain_score(df.copy(), weights): arg is the copy
\* the call was given, as the call leaves it; main's df is another object and
\* stays as loaded.
Process ==
  /\ pc = "loaded"
  /\ ~IsEmpty(df)
  /\ \E out \in CalculateCaptainScore(df, weights) :
        /\ result_df' = out.ret
        /\ arg' = out.frame
        /\ df' = df
        /\ errors' = IF out.fault = NoFault THEN errors
                     ELSE Append(errors, ErrorReport(out.fault))
  /\ pc' = "scored"
  /\ UNCHANGED <<weights, metrics, uncaught>>

\* if not df.empty: is false, nothing is processed.
Skip ==
  /\ pc = "loaded"
  /\ IsEmpty(df)
  /\ pc' = "skipped"
  /\ UNCHANGED <<weights, df, arg, result_df, errors, metrics, uncaught>>

\* display_metrics(result_df); an exception it raises ends the run.
DisplayMetrics ==
  /\ pc = "scored"
  /\ LET f == MetricsFault(result_df)
     IN IF f = NoFault
        THEN /\ \E m \in MetricsOf(result_df) : metrics' = m
             /\ pc' = "displayed"
             /\ UNCHANGED uncaught
        ELSE /\ uncaught' = f
             /\ pc' = "crashed"
             /\ UNCHANGED metrics
  /\ UNCHANGED <<weights, df, arg, result_df, errors>>

Next == Load \/ Process \/ Skip \/ DisplayMetrics

Spec == Init /\ [][Next]_vars

-----------------------------------------------------------------------------
(* calculate_captain_score on one record at a time *)

Counts == (0 - 1)..MaxCount

ImprovementScores == {0 - 10, 0, 80, 100, 150}

\* Every slider at 0, the defaults, every slider at its maximum.
ScoreWeightConfigs ==
  { WeightsOf(0, 0, 0, 0), DefaultWeights,
    WeightsOf(SliderMax, SliderMax, SliderMax, SliderMax) }

OneRecord(mp, mw, cp, cw, ss, ts, pis) ==
  [dtype |-> [c \in RequiredColumns |-> IF c = "Captain" THEN "object" ELSE "int64"],
   rows |-> << [ Captain |-> DefaultCaptains[1],
                 Matches_Played |-> mp, Matches_Won |-> mw,
                 Close_Matches_Played |-> cp, Close_Matches_Won |-> cw,
                 Successful_Strategies |-> ss, Total_Strategies |-> ts,
                 Player_Improvement_Score |-> pis ] >>]

InitScore ==
  /\ pc = "loaded"
  /\ weights \in ScoreWeightConfigs
  /\ \E mp, mw, cp, cw, ss, ts \in Counts : \E pis \in ImprovementScores :
       df = OneRecord(mp, mw, cp, cw, ss, ts, pis)
  /\ arg = EmptyFrame
  /\ result_df = EmptyFrame
  /\ errors = <<>>
  /\ metrics = NoMetrics
  /\ uncaught = NoFault

NextScore == Process

SpecScore == InitScore /\ [][NextScore]_vars

-----------------------------------------------------------------------------
(* Properties *)

\* The scoring pass has run.
Scored == pc \in {"scored", "displayed", "crashed"}

\* Some column the scoring pass reads is absent or holds text.
InputFails ==
  \E c \in NumericColumns : c \notin Columns(df) \/ HoldsText(df, c)

Restrict(row, cols) == [c \in cols |-> row[c]]

ScoreAt(frame, i) == frame.rows[i]["Captaincy_Score"]

\* C1: the frame score returns is either every input record with all five
\* derived fields, or empty; whenever the pass fails the result is empty,
\* never some of the records or some of the derived fields.
C1_AllOrNothing ==
  Scored =>
    IF InputFails
    THEN result_df = EmptyFrame
    ELSE /\ Columns(result_df) = Columns(df) \cup DerivedColumns
         /\ Len(result_df.rows) = Len(df.rows)
         /\ \A i \in 1..Len(result_df.rows) :
              DOMAIN result_df.rows[i] = Columns(df) \cup DerivedColumns

\* A pass that failed part-way: derived columns were already written to the
\* frame it was given, and the result is empty.
C1_Witness ==
  /\ pc = "scored"
  /\ InputFails
  /\ Columns(arg) \cap DerivedColumns # {}
  /\ result_df = EmptyFrame

\* C2: a batch that lacks any one of the eight named columns is reported as
\* MissingField and gives an empty output.
C2_MissingColumnIsMissingField ==
  (pc = "scored" /\ RequiredColumns \ Columns(df) # {}) =>
    /\ Len(errors) = 1
    /\ errors[1].kind = "MissingField"
    /\ result_df = EmptyFrame

\* C3: a MissingField or ProcessingError of the scoring pass is not fatal to
\* main: display_metrics is not run on the empty result and no exception
\* escapes.
C3_FailureIsNonFatal ==
  errors # <<>> => (pc # "crashed" /\ uncaught = NoFault)

\* C8: the result of a successful pass is non-increasing in Captaincy_Score
\* and holds exactly the input records, each once, with the derived fields.
C8_SortedPermutation ==
  (Scored /\ ~InputFails) =>
    /\ \A i \in 1..(Len(result_df.rows) - 1) :
         FloatLE(ScoreAt(result_df, i + 1), ScoreAt(result_df, i))
    /\ Len(result_df.rows) = Len(df.rows)
    /\ DerivedColumns \subseteq Columns(result_df)
    /\ \A j \in 1..Len(result_df.rows) :
         LET rec == Restrict(result_df.rows[j], Columns(df))
         IN Cardinality({k \in 1..Len(result_df.rows) :
                           Restrict(result_df.rows[k], Columns(df)) = rec})
            = Cardinality({i \in 1..Len(df.rows) : df.rows[i] = rec})

\* A successful pass whose sort moved a record: the first input record is
\* not the first of the result, and the scores differ.
C8_Witness ==
  /\ pc = "scored"
  /\ ~InputFails
  /\ Len(result_df.rows) >= 2
  /\ Restrict(result_df.rows[1], Columns(df)) # df.rows[1]
  /\ ScoreAt(result_df, 1) # ScoreAt(result_df, Len(result_df.rows))

\* C9: after a call of calculate_captain_score the collection that was
\* passed in holds the same fields and values as before the call (main passes
\* a copy of df, so df is what the copy held before the call).
C9_PassedFrameUntouched ==
  Scored => arg = df

\* Where the record of input row i stands in the result.
PositionOf(i) ==
  CHOOSE k \in 1..Len(result_df.rows) :
    result_df.rows[k]["Captain"] = df.rows[i]["Captain"]

\* C10: records with equal Captaincy_Score keep their input order in the
\* result.
C10_StableOnTies ==
  (pc = "scored" /\ ~InputFails /\ "Captain" \in Columns(df)) =>
    \A i, j \in 1..Len(df.rows) :
      (i < j /\ ScoreAt(arg, i) = ScoreAt(arg, j)) => PositionOf(i) < PositionOf(j)

-----------------------------------------------------------------------------
(* Properties of one scored record *)

TheRecord == result_df.rows[1]

InRange(x) == FloatLE(Zero, x) /\ FloatLE(x, Frac(ClipUpper, 1))

\* The counters of the record are as the data model has them: for each ratio
\* 0 <= numerator <= denominator.
ValidCounters(r) ==
  /\ 0 <= r["Matches_Won"] /\ r["Matches_Won"] <= r["Matches_Played"]
  /\ 0 <= r["Close_Matches_Won"]
  /\ r["Close_Matches_Won"] <= r["Close_Matches_Played"]
  /\ 0 <= r["Successful_Strategies"]
  /\ r["Successful_Strategies"] <= r["Total_Strategies"]

\* C4: a ratio field is exactly 0 when its denominator is 0, whatever the
\* numerator; the pass does not fail there and the field is neither NaN nor
\* infinite.
C4_ZeroDenominator ==
  pc = "scored" =>
    /\ errors = <<>>
    /\ result_df # EmptyFrame
    /\ (TheRecord["Matches_Played"] = 0 => TheRecord["Win_Percentage"] = Zero)
    /\ (TheRecord["Close_Matches_Played"] = 0 =>
          TheRecord["Close_Match_Success"] = Zero)
    /\ (TheRecord["Total_Strategies"] = 0 => TheRecord["Strategy_Success"] = Zero)
    /\ IsFinite(TheRecord["Win_Percentage"])
    /\ IsFinite(TheRecord["Close_Match_Success"])
    /\ IsFinite(TheRecord["Strategy_Success"])
    /\ IsFinite(TheRecord["Captaincy_Score"])

\* All three denominators are 0 and no numerator is.
C4_Witness ==
  /\ pc = "scored"
  /\ TheRecord["Matches_Played"] = 0 /\ TheRecord["Matches_Won"] > 0
  /\ TheRecord["Close_Matches_Played"] = 0 /\ TheRecord["Close_Matches_Won"] < 0
  /\ TheRecord["Total_Strategies"] = 0 /\ TheRecord["Successful_Strategies"] > 0
  /\ TheRecord["Win_Percentage"] = Zero

PercentagesInRange(r) ==
  /\ InRange(r["Win_Percentage"])
  /\ InRange(r["Close_Match_Success"])
  /\ InRange(r["Strategy_Success"])
  /\ ClipLower <= r["Player_Impact"] /\ r["Player_Impact"] <= ClipUpper

\* C5 as stated: for every record passed to score the four percentage fields
\* lie in [0,100].
C5_PercentagesInRangeAlways ==
  pc = "scored" => PercentagesInRange(TheRecord)

\* C5, amended: the four percentage fields lie in [0,100] for every record
\* whose counters have 0 <= numerator <= denominator; Player_Impact does for
\* every record.
C5_PercentagesInRangeValid ==
  pc = "scored" =>
    /\ ValidCounters(TheRecord) => PercentagesInRange(TheRecord)
    /\ ClipLower <= TheRecord["Player_Impact"]
    /\ TheRecord["Player_Impact"] <= ClipUpper

\* A valid record with a ratio strictly inside the range and an improvement
\* score that had to be clipped.
C5_Witness ==
  /\ pc = "scored"
  /\ ValidCounters(TheRecord)
  /\ TheRecord["Win_Percentage"] = Frac(ClipUpper, 2)
  /\ TheRecord["Strategy_Success"] = Frac(ClipUpper, 1)
  /\ TheRecord["Player_Improvement_Score"] > ClipUpper

\* 100 * (win + close + player + strategy), the weights being slider values.
ScoreCeiling(w) ==
  Frac(ClipUpper * (w.win + w.close + w.player + w.strategy) * SliderStep, ScoreScale)

ScoreInBounds ==
  /\ FloatLE(Zero, TheRecord["Captaincy_Score"])
  /\ FloatLE(TheRecord["Captaincy_Score"], ScoreCeiling(weights))

\* C6 as stated: for every record and every setting of the weights
\* Captaincy_Score lies in [0, 100 * (win + close + player + strategy)].
C6_ScoreInBoundsAlways ==
  pc = "scored" => ScoreInBounds

\* C6, amended: it does for every record whose counters have
\* 0 <= numerator <= denominator.
C6_ScoreInBoundsValid ==
  (pc = "scored" /\ ValidCounters(TheRecord)) => ScoreInBounds

\* A valid record that reaches the ceiling, the ceiling not being 0.
C6_Witness ==
  /\ pc = "scored"
  /\ ValidCounters(TheRecord)
  /\ TheRecord["Captaincy_Score"] = ScoreCeiling(weights)
  /\ ScoreCeiling(weights) # Zero

\* C7: Player_Impact is Player_Improvement_Score clamped to [0,100]: 100
\* above 100, 0 below 0, unchanged in between.
C7_PlayerImpactClamped ==
  pc = "scored" =>
    LET pis == TheRecord["Player_Improvement_Score"]
        impact == TheRecord["Player_Impact"]
    IN /\ pis > 100 => impact = 100
       /\ pis < 0 => impact = 0
       /\ (0 <= pis /\ pis <= 100) => impact = pis

\* The improvement score 150 was clipped to 100.
C7_Witness ==
  /\ pc = "scored"
  /\ TheRecord["Player_Improvement_Score"] = 150
  /\ TheRecord["Player_Impact"] = 100

====
